---- MODULE Spec2Model ----
(***************************************************************************)
(* Generic CRUD layer of the boilerplate repository (router / service /    *)
(* repository over a relational store), instantiated for Product.          *)
(*                                                                         *)
(* Request flows run concurrently; each flow owns one store session and    *)
(* interleaves with the others only at the store boundary (query, commit,  *)
(* rollback).  The store is a table of committed rows with a uniqueness    *)
(* constraint on name and check constraints on price and stock.            *)
(***************************************************************************)
EXTENDS Integers, Sequences, FiniteSets, TLC

\* ------------------------------------------------------------------------
\* Bounds of the model
\* ------------------------------------------------------------------------
MaxId == 3        \* largest primary key the store hands out
MaxClock == 2     \* largest value of the store's clock

Flows == {"f1", "f2"}

\* ------------------------------------------------------------------------
\* Program constants
\* ------------------------------------------------------------------------
NameMaxLength == 128          \* ProductInSchema.name  Field(max_length=128)
DescriptionMaxLength == 1024  \* ProductInSchema.description
DefaultPage == 1              \* list_items(page: int = 1)
DefaultPageSize == 10         \* list_items(page_size: int = 10)
DefaultEnv == "DEV"           \* AppSettings.env

HTTP_200_OK == 200
HTTP_201_CREATED == 201
HTTP_204_NO_CONTENT == 204
HTTP_400_BAD_REQUEST == 400
HTTP_404_NOT_FOUND == 404
HTTP_409_CONFLICT == 409
HTTP_422_UNPROCESSABLE_ENTITY == 422
HTTP_500_INTERNAL_SERVER_ERROR == 500

\* The two store engines whose uniqueness messages save_object recognises.
Engines == {"sqlite", "postgresql"}

NULL == [null |-> TRUE]

\* ------------------------------------------------------------------------
\* Values
\* ------------------------------------------------------------------------
\* A string is its identity and its length.
Str(tag, len) == [tag |-> tag, len |-> len]

\* Python integers are unbounded; the model's integers are not.  An integer
\* is held as hi * Limb + lo with |lo| < Limb, and hi > 0 only with lo >= 0.
Limb == 2^27
MantissaLimb == 2^26                      \* 2^53 = MantissaLimb * Limb
Wide(hi, lo) == [hi |-> hi, lo |-> lo]
Small(n) == Wide(0, n)
WideGE0(x) == x.hi > 0 \/ (x.hi = 0 /\ x.lo >= 0)

\* Float column: an integer bound to a double keeps 53 bits of mantissa.
\* Below 2^53 it is exact; in [2^53, 2^54) the spacing is 2 and an odd
\* integer is a tie, rounded to the neighbour whose mantissa is even.
\* (The model's prices stay below 2^54 in magnitude, and only non-negative
\* ones reach the upper range.)

ToFloat(x) ==
    IF x.hi < MantissaLimb \/ x.lo % 2 = 0
    THEN x
    ELSE IF ((x.lo - 1) \div 2) % 2 = 0
         THEN Wide(x.hi, x.lo - 1)
         ELSE IF x.lo + 1 = Limb THEN Wide(x.hi + 1, 0)
                                  ELSE Wide(x.hi, x.lo + 1)

\* ProductOutSchema.price is an int: an integral float validates to the
\* integer it equals.
FloatToInt(x) == x

\* ------------------------------------------------------------------------
\* Request payloads (ProductInSchema) and entities (Product)
\* ------------------------------------------------------------------------
NameA == Str("Test Product", 12)
NameB == Str("Product 0", NameMaxLength)
NameC == Str("Product 1", 9)
NameLong == Str("Overlong", NameMaxLength + 1)
DescA == Str("A test product description", 26)
DescLong == Str("Overlong description", DescriptionMaxLength + 1)
PriceBig == Wide(MantissaLimb, 1)          \* 2^53 + 1

Payload(n, d, p, s) == [name |-> n, description |-> d, price |-> p, stock |-> s]

\* A payload with a key the input schema does not declare: an id the client
\* proposes.
ProposedId == 2
PayloadWithId ==
    [name |-> NameC, description |-> DescA, price |-> Small(1000), stock |-> 10,
     id |-> ProposedId]

\* The payloads a client sends: valid ones (three names, a repeated name
\* with other field values, a price above 2^53) and one of each invalid kind.
Payloads ==
    { Payload(NameA, DescA, Small(1000), 10),
      Payload(NameA, DescA, Small(0), 0),
      Payload(NameB, DescA, Small(0), 10),
      Payload(NameB, DescA, PriceBig, 10),
      Payload(NameC, DescA, Small(1000), 10),
      Payload(NameA, DescA, Small(-100), 10),
      Payload(NameA, DescA, Small(1000), -1),
      Payload(NameB, DescA, Small(-100), -1),
      Payload(NameLong, DescA, Small(1000), 10),
      Payload(NameA, DescLong, Small(1000), 10) }

\* One per-field error of a validation failure.
FieldError(field, type, msg) == [loc |-> <<"body", field>>, type |-> type, msg |-> msg]
MsgGE0 == <<"Input should be greater than or equal to ", 0>>
MsgTooLong(n) == <<"String should have at most ", n, " characters">>

IF_(c, s) == IF c THEN s ELSE <<>>

\* An input schema without its ge=0 constraints.
ValidateUnchecked(p) ==
    IF_(p.name.len > NameMaxLength,
        <<FieldError("name", "string_too_long", MsgTooLong(NameMaxLength))>>)
    \o IF_(p.description.len > DescriptionMaxLength,
        <<FieldError("description", "string_too_long", MsgTooLong(DescriptionMaxLength))>>)

\* ProductInSchema: the errors of a payload, in field order.
ProductInSchema(p) ==
    IF_(p.name.len > NameMaxLength,
        <<FieldError("name", "string_too_long", MsgTooLong(NameMaxLength))>>)
    \o IF_(p.description.len > DescriptionMaxLength,
        <<FieldError("description", "string_too_long", MsgTooLong(DescriptionMaxLength))>>)
    \o IF_(~WideGE0(p.price),
        <<FieldError("price", "greater_than_equal", MsgGE0)>>)
    \o IF_(p.stock < 0,
        <<FieldError("stock", "greater_than_equal", MsgGE0)>>)

\* Product(name=..., price=..., stock=..., description=...): a transient
\* entity; id and timestamps are unset (0) until the store assigns them.
NewProduct(p) ==
    [id |-> 0, name |-> p.name, description |-> p.description,
     price |-> p.price, stock |-> p.stock, created_at |-> 0, updated_at |-> 0]

\* ProductOutSchema: the input fields plus id, serialised as product_id.
ProductOutSchema(o) ==
    [product_id |-> o.id, name |-> o.name, description |-> o.description,
     price |-> FloatToInt(o.price), stock |-> o.stock]

\* ------------------------------------------------------------------------
\* Exceptions and their mapping to responses (FastApiBuilder.handle_exceptions)
\* ------------------------------------------------------------------------
Exc(cls, status_code, detail) == [cls |-> cls, status_code |-> status_code, detail |-> detail]

NotFoundException(detail) == Exc("NotFoundException", HTTP_404_NOT_FOUND, detail)
ConflictException(detail) == Exc("ConflictException", HTTP_409_CONFLICT, detail)
RequestValidationError(errors) == Exc("RequestValidationError", 0, errors)
\* Exceptions of the store driver and the ORM carry no status code.
IntegrityError(msg) == Exc("IntegrityError", 0, msg)
DBAPIError(msg) == Exc("DBAPIError", 0, msg)
InvalidRequestError(msg) == Exc("InvalidRequestError", 0, msg)
OperationalError(msg) == Exc("OperationalError", 0, msg)
\* Exceptions of the application and of the language.
BadRequestException(detail) == Exc("BadRequestException", HTTP_400_BAD_REQUEST, detail)
SystemException(error) == Exc("SystemException", HTTP_500_INTERNAL_SERVER_ERROR, error)
ValidationError(errors) == Exc("ValidationError", 0, errors)
RuntimeError(msg) == Exc("RuntimeError", 0, msg)

\* The subclasses of ExceptionBase.
ExceptionBase ==
    {"NotFoundException", "BadRequestException", "UnauthorizedException",
     "UnprocessableEntity", "ConflictException"}

\* The classes that are HTTPExceptions: the base class itself, SystemException
\* and ExceptionBase with its subclasses.
HTTPException == {"HTTPException", "SystemException"} \cup ExceptionBase

Response(status, body) == [status |-> status, body |-> body]

InternalServerError ==
    [exception |-> "InternalServerError", detail |-> <<"Internal Server Error">>]

\* The catch-all handler taking every exception.
HandleAsGeneric(e) ==
    Response(HTTP_500_INTERNAL_SERVER_ERROR,
             [exception |-> "InternalServerError", detail |-> <<"Internal Server Error">>])

\* Handlers that add the error code to the body of an application exception.
HandleWithErrorCode(e) ==
    IF e.cls \in HTTPException
    THEN Response(e.status_code,
                  [exception |-> e.cls, detail |-> e.detail, error_code |-> NULL])
    ELSE IF e.cls \in {"RequestValidationError", "ValidationError"}
    THEN Response(HTTP_422_UNPROCESSABLE_ENTITY,
                  [exception |-> e.cls, detail |-> e.detail])
    ELSE Response(HTTP_500_INTERNAL_SERVER_ERROR, InternalServerError)

\* Handlers whose catch-all puts str(exc) in the body.
HandleWithMessage(e) ==
    IF e.cls \in HTTPException
    THEN Response(e.status_code, [exception |-> e.cls, detail |-> e.detail])
    ELSE IF e.cls \in {"RequestValidationError", "ValidationError"}
    THEN Response(HTTP_422_UNPROCESSABLE_ENTITY,
                  [exception |-> e.cls, detail |-> e.detail])
    ELSE Response(HTTP_500_INTERNAL_SERVER_ERROR,
                  [exception |-> "InternalServerError", detail |-> e.detail])

\* The handler chosen for an exception, by its class: the most specific of
\* the registered classes ExceptionBase, RequestValidationError,
\* ValidationError, HTTPException and Exception.
HandleException(e) ==
    IF e.cls \in ExceptionBase
    THEN Response(e.status_code, [exception |-> e.cls, detail |-> e.detail])
    ELSE IF e.cls \in {"RequestValidationError", "ValidationError"}
    THEN Response(HTTP_422_UNPROCESSABLE_ENTITY,
                  [exception |-> e.cls, detail |-> e.detail])
    ELSE IF e.cls \in HTTPException
    THEN Response(e.status_code, [exception |-> e.cls, detail |-> e.detail])
    ELSE Response(HTTP_500_INTERNAL_SERVER_ERROR, InternalServerError)

\* Failures of the store that are no constraint violation.
StoreFaults ==
    { OperationalError(<<"connection to server at ", "db:5432", " was closed">>) }

\* Exceptions that code running inside a handler raises.
ServiceExceptions ==
    { SystemException(<<"disk quota exceeded on ", "/var/lib/app">>),
      BadRequestException(<<"Bad request">>),
      ValidationError(<<[loc |-> <<"price">>, type |-> "int_type",
                         msg |-> <<"Input should be a valid integer">>]>>),
      RuntimeError(<<"unexpected state in ", "ProductService">>) }

\* The outcome of a call made on the repository itself, with no HTTP layer
\* around it: status 0 is a return, status -1 a raised exception.
Returned(value) == Response(0, value)
Raised(e) == Response(-1, [exception |-> e.cls, detail |-> e.detail])

\* ------------------------------------------------------------------------
\* The store: messages, constraints, queries
\* ------------------------------------------------------------------------
\* str(e) of an integrity failure, as the text fragments it is made of.
UniqueMessage(eng) ==
    IF eng = "sqlite"
    THEN <<"(sqlite3.IntegrityError) ", "UNIQUE constraint failed", ": product.name">>
    ELSE <<"(asyncpg.UniqueViolationError) ", "duplicate key",
           " value violates unique constraint">>

CheckMessage(eng, constraint) ==
    IF eng = "sqlite"
    THEN <<"(sqlite3.IntegrityError) ", "CHECK constraint failed", ": ", constraint>>
    ELSE <<"(asyncpg.CheckViolationError) ", "violates check constraint ", constraint>>

\* `fragment in text`
Contains(text, fragment) == \E i \in 1..Len(text) : text[i] = fragment

\* str.lower(), fragment by fragment.
LowerFragment(t) ==
    CASE t = "UNIQUE constraint failed" -> "unique constraint failed"
      [] t = "CHECK constraint failed" -> "check constraint failed"
      [] t = "(sqlite3.IntegrityError) " -> "(sqlite3.integrityerror) "
      [] t = "(asyncpg.UniqueViolationError) " -> "(asyncpg.uniqueviolationerror) "
      [] t = "(asyncpg.CheckViolationError) " -> "(asyncpg.checkviolationerror) "
      [] OTHER -> t
Lower(text) == [i \in 1..Len(text) |-> LowerFragment(text[i])]

\* A test that knows one engine's wording only.
IsUniqueViolationSqliteOnly(msg) == Contains(msg, "UNIQUE constraint failed")

\* save_object's test of the message of a caught IntegrityError.
IsUniqueViolation(msg) ==
    Contains(msg, "UNIQUE constraint failed") \/ Contains(Lower(msg), "duplicate key")

RECURSIVE SeqMax(_)
SeqMax(ids) == IF ids = <<>> THEN 0
               ELSE LET m == SeqMax(Tail(ids)) IN IF Head(ids) > m THEN Head(ids) ELSE m

IdsOf(table) == [i \in 1..Len(table) |-> table[i].id]
StoredIds(table) == {table[i].id : i \in 1..Len(table)}
StoredNames(table) == {table[i].name : i \in 1..Len(table)}
RowOf(table, id) == table[CHOOSE i \in 1..Len(table) : table[i].id = id]

\* A key generator that hands out one and the same key.
SameKey(eng, table, seq) == 1

\* A select that lost its WHERE clause: the first row, whatever its id.
SelectAny(table, id) == IF table = <<>> THEN NULL ELSE table[1]

\* select(model).where(model.id == id), .scalar(): the row or None.
SelectById(table, id) ==
    IF id \in StoredIds(table) THEN RowOf(table, id) ELSE NULL

\* The primary key of the next inserted row: a rowid one above the largest
\* stored (sqlite), or the next value of the sequence (postgresql).
NextKey(eng, table, seq) ==
    IF eng = "sqlite" THEN SeqMax(IdsOf(table)) + 1 ELSE seq

\* A table without its check constraints.
UniqueOnly(eng, table, o) ==
    IF o.name \in StoredNames(table) THEN IntegrityError(UniqueMessage(eng)) ELSE NULL

\* A table without its unique index on name.
ChecksOnly(eng, table, o) ==
    IF ~WideGE0(o.price) THEN IntegrityError(CheckMessage(eng, "non_negative_price"))
    ELSE IF o.stock < 0 THEN IntegrityError(CheckMessage(eng, "non_negative_stock"))
    ELSE NULL

\* The failure an INSERT of o meets, or NULL: check constraints are evaluated
\* on the row before the unique index is touched.
InsertFailure(eng, table, o) ==
    IF ~WideGE0(o.price) THEN IntegrityError(CheckMessage(eng, "non_negative_price"))
    ELSE IF o.stock < 0 THEN IntegrityError(CheckMessage(eng, "non_negative_stock"))
    ELSE IF o.name \in StoredNames(table) THEN IntegrityError(UniqueMessage(eng))
    ELSE NULL

\* The row an INSERT of o stores: key assigned, price bound to the Float
\* column, both timestamps set from the statement's now().
InsertedRow(o, key, now) ==
    [id |-> key, name |-> o.name, description |-> o.description,
     price |-> ToFloat(o.price), stock |-> o.stock,
     created_at |-> now, updated_at |-> now]

\* A DELETE that lost its WHERE clause.
DeleteAll(table, id) == <<>>

\* DELETE FROM product WHERE id = :id
DeleteById(table, id) == SelectSeq(table, LAMBDA r : r.id # id)

Min(a, b) == IF a < b THEN a ELSE b
Max(a, b) == IF a > b THEN a ELSE b

\* The failure a LIMIT/OFFSET pair meets, or NULL: postgresql rejects a
\* negative LIMIT or OFFSET, sqlite accepts both.
LimitFailure(eng, limit, offset) ==
    IF eng = "postgresql" /\ limit < 0 THEN DBAPIError(<<"LIMIT must not be negative">>)
    ELSE IF eng = "postgresql" /\ offset < 0 THEN DBAPIError(<<"OFFSET must not be negative">>)
    ELSE NULL

\* The table read from position k + 1 on, wrapping around at its end.
Rotate(table, k) ==
    [i \in 1..Len(table) |-> table[((i + k - 1) % Len(table)) + 1]]

\* The orders in which select(model), a statement with no ORDER BY, can
\* return the rows of the table: sqlite walks the table by rowid;
\* postgresql scans the heap, and its scan may start at any position of the
\* heap and wrap around (synchronized sequential scans).
ScanOrders(eng, table) ==
    IF eng = "sqlite" \/ table = <<>> THEN {table}
    ELSE {Rotate(table, k) : k \in 0..(Len(table) - 1)}

\* A page query that lost its OFFSET.
WindowNoOffset(table, limit, offset) ==
    SubSeq(table, 1, IF limit < 0 THEN Len(table) ELSE Min(Len(table), limit))

\* SELECT ... LIMIT :limit OFFSET :offset over the table in the store's
\* order.  In sqlite a negative LIMIT is no limit and a negative OFFSET is 0.
Window(table, limit, offset) ==
    LET first == Max(offset, 0) + 1
        last == IF limit < 0 THEN Len(table) ELSE Min(Len(table), first + limit - 1)
    IN SubSeq(table, first, last)

\* A page count that rounds down.
PageCountFloor(row_count, page_size) ==
    IF page_size > 0 THEN row_count \div page_size ELSE 0

\* select(func.count()).select_from(stmt.subquery())
RowCount(table) == Len(table)

\* ceil(row_count / page_size) if page_size > 0 else 0
PageCount(row_count, page_size) ==
    IF page_size > 0 THEN (row_count + page_size - 1) \div page_size ELSE 0

\* ------------------------------------------------------------------------
\* The application (FastApiBuilder, main.py)
\* ------------------------------------------------------------------------
DocsPaths == {"/docs", "/redoc", "/openapi.json"}

\* FastApiBuilder.__init__: the documentation routes of the application it
\* builds; kwargs go to the FastAPI constructor untouched.
FastApiBuilder(hide_docs, kwargs) ==
    IF hide_docs = FALSE THEN DocsPaths ELSE {}

\* main.py: FastApiBuilder(title=..., version=..., logger=logger,
\* env=app_settings.env, lifespan=lifespan); hide_docs keeps its default.
App(environment) == FastApiBuilder(FALSE, [env |-> environment])

\* ------------------------------------------------------------------------
\* State
\* ------------------------------------------------------------------------
VARIABLES
    engine,    \* the store engine behind the configured connection string
    rows,      \* the product table: committed rows, in the store's order
    next_id,   \* postgresql: the next value of the primary-key sequence
    clock,     \* the store's now()
    pc,        \* per flow: where its handler stands
    req,       \* per flow: the request being handled
    sess,      \* per flow: its AsyncSession
    obj,       \* per flow: the entity its repository holds
    exc,       \* per flow: the exception caught in save_object
    records,   \* per flow: the page list_paginated has fetched
    trace,     \* per flow: the calls made so far, in order
    resp,      \* per flow: the response, once the handler has ended
    rival,     \* per flow (history): a create of the same name was answered
               \* 201 while this flow's create was in flight
    env,       \* the configured environment name
    raised     \* per flow: the exception that left the handler, if one did

vars == <<engine, rows, next_id, clock, pc, req, sess, obj, exc, records, trace, resp,
          rival, env, raised>>

store == <<engine, rows, next_id, clock>>

Ids == 1..MaxId
Pages == {0, DefaultPage, 2, 3}
PageSizes == {-1, 0, 1, 2, DefaultPageSize}

HttpOps == {"create", "get", "delete", "list_items", "docs"}

\* Entities handed to save_object directly, past the input schema.
DirectObjects ==
    { NewProduct(Payload(NameA, DescA, Small(1000), 10)),
      NewProduct(Payload(NameB, DescA, Small(-100), 10)),
      NewProduct(Payload(NameB, DescA, Small(1000), -1)) }

Requests ==
    [op : {"create"}, payload : Payloads]
    \cup [op : {"get", "delete", "get_one"}, id : Ids]
    \cup [op : {"list_items"}, page : Pages, page_size : PageSizes]
    \cup [op : {"list"}, page_number : {-1, 0, 1, 2}, page_size : PageSizes]
    \cup [op : {"save_object"}, obj : DirectObjects, refresh : BOOLEAN]

\* The requests of the concurrent specification: creates that repeat a name
\* with other field values, an invalid create, a delete of every id, direct
\* saves past the input schema, and one of each read.
InterleavedRequests ==
    [op : {"create"},
     payload : { Payload(NameA, DescA, Small(1000), 10),
                 Payload(NameA, DescA, Small(0), 0),
                 Payload(NameB, DescA, Small(-100), -1) }]
    \cup [op : {"delete"}, id : Ids]
    \cup [op : {"get", "get_one"}, id : {1}]
    \cup [op : {"list_items"}, page : {1}, page_size : {1}]
    \cup [op : {"list"}, page_number : {0}, page_size : {1}]
    \cup [op : {"save_object"},
          obj : {NewProduct(Payload(NameB, DescA, Small(-100), 10)),
                 NewProduct(Payload(NameB, DescA, Small(1000), -1))}, refresh : {TRUE}]
    \cup [op : {"save_object"},
          obj : {NewProduct(Payload(NameB, DescA, Small(1000), 10))}, refresh : {FALSE}]

ClosedSession == [open |-> FALSE, pending |-> "none", sid |-> 0]
OpenSession(sid) == [open |-> TRUE, pending |-> "none", sid |-> sid]

\* The sessions that are open.
OpenSessions == {sess[f].sid : f \in {g \in Flows : sess[g].open}}

\* A factory that hands every caller one and the same session.
SharedSession(used) == 1

\* AsyncSessionFactory(): a new session object, distinct from every open one.
AsyncSessionFactory(used) ==
    CHOOSE s \in 1..Cardinality(Flows) \ used :
        \A t \in 1..Cardinality(Flows) \ used : s <= t

\* The environment names a deployment configures.
Envs == {DefaultEnv, "PROD"}

\* Everything but the environment name, as it is once the tables exist.
Started ==
    /\ engine \in Engines
    /\ rows = <<>>
    /\ next_id = 1
    /\ clock = 1
    /\ pc = [f \in Flows |-> "idle"]
    /\ req = [f \in Flows |-> NULL]
    /\ sess = [f \in Flows |-> ClosedSession]
    /\ obj = [f \in Flows |-> NULL]
    /\ exc = [f \in Flows |-> NULL]
    /\ records = [f \in Flows |-> <<>>]
    /\ trace = [f \in Flows |-> <<>>]
    /\ resp = [f \in Flows |-> NULL]
    /\ rival = [f \in Flows |-> FALSE]
    /\ raised = [f \in Flows |-> NULL]

\* The application started with the default settings.
Init == Started /\ env = DefaultEnv

\* The application started under any environment name.
InitAnyEnv == Started /\ env \in Envs

IsHttp(f) == req[f].op \in HttpOps

\* How an exception leaves the flow: through the application's handlers for
\* a request, as it is for a direct call.
Surface(f, e) == IF IsHttp(f) THEN HandleException(e) ELSE Raised(e)

\* Flows that may still insert a row.
Inserting == {g \in Flows : pc[g] \in {"handler", "commit"}
                            /\ req[g].op \in {"create", "save_object"}}

\* ------------------------------------------------------------------------
\* Actions
\* ------------------------------------------------------------------------
\* A request arrives; get_session opens the flow's session.
Request(f, r) ==
    /\ pc[f] = "idle"
    /\ r.op \in {"create", "save_object"} =>
         NextKey(engine, rows, next_id) + Cardinality(Inserting) <= MaxId
    /\ pc' = [pc EXCEPT ![f] = "handler"]
    /\ req' = [req EXCEPT ![f] = r]
    /\ sess' = [sess EXCEPT ![f] = OpenSession(AsyncSessionFactory(OpenSessions))]
    /\ UNCHANGED <<store, obj, exc, records, trace, resp>>
    /\ UNCHANGED <<rival, env, raised>>

\* POST /: the payload is validated; ProductService.create builds the
\* entity and save_object adds it to the session.
create_item(f) ==
    /\ pc[f] = "handler" /\ req[f].op = "create"
    /\ LET errors == ProductInSchema(req[f].payload) IN
       IF errors # <<>>
       THEN /\ resp' = [resp EXCEPT ![f] = HandleException(RequestValidationError(errors))]
            /\ raised' = [raised EXCEPT ![f] = RequestValidationError(errors)]
            /\ pc' = [pc EXCEPT ![f] = "done"]
            /\ UNCHANGED <<obj, sess, trace>>
       ELSE /\ obj' = [obj EXCEPT ![f] = NewProduct(req[f].payload)]
            /\ sess' = [sess EXCEPT ![f].pending = "add"]
            /\ trace' = [trace EXCEPT ![f] =
                           <<"service.create", "repository.save_object", "db.add">>]
            /\ pc' = [pc EXCEPT ![f] = "commit"]
            /\ UNCHANGED <<resp, raised>>
    /\ UNCHANGED <<store, req, exc, records>>
    /\ UNCHANGED <<rival, env>>

\* RepositoryBase.save_object called directly: self.db.add(obj).
save_object(f) ==
    /\ pc[f] = "handler" /\ req[f].op = "save_object"
    /\ obj' = [obj EXCEPT ![f] = req[f].obj]
    /\ sess' = [sess EXCEPT ![f].pending = "add"]
    /\ trace' = [trace EXCEPT ![f] = <<"repository.save_object", "db.add">>]
    /\ pc' = [pc EXCEPT ![f] = "commit"]
    /\ UNCHANGED <<store, req, exc, records, resp>>
    /\ UNCHANGED <<rival, env, raised>>

Refreshes(f) == req[f].op = "create" \/ req[f].refresh

\* save_object: await self.db.commit() flushes the INSERT and commits it, or
\* raises IntegrityError.  A postgresql sequence value is consumed either way.
save_object_commit(f) ==
    /\ pc[f] = "commit"
    /\ LET failure == InsertFailure(engine, rows, obj[f])
           key == NextKey(engine, rows, next_id)
       IN
       /\ next_id' = IF engine = "postgresql" THEN next_id + 1 ELSE next_id
       /\ trace' = [trace EXCEPT ![f] = Append(@, "db.commit")]
       /\ IF failure = NULL
          THEN /\ rows' = Append(rows, InsertedRow(obj[f], key, clock))
               /\ obj' = [obj EXCEPT ![f].id = key]
               /\ sess' = [sess EXCEPT ![f].pending = "none"]
               /\ IF Refreshes(f)
                  THEN /\ pc' = [pc EXCEPT ![f] = "refresh"]
                       /\ UNCHANGED resp
                  ELSE /\ pc' = [pc EXCEPT ![f] = "done"]
                       /\ resp' = [resp EXCEPT ![f] = Returned(obj'[f])]
               /\ UNCHANGED exc
          ELSE /\ exc' = [exc EXCEPT ![f] = failure]
               /\ pc' = [pc EXCEPT ![f] = "rollback"]
               /\ UNCHANGED <<rows, obj, sess, resp>>
    /\ UNCHANGED <<engine, clock, req, records>>
    /\ UNCHANGED <<rival, env, raised>>

\* g's create is in flight, not yet committed, with the name f's create has.
Rivals(f, g) ==
    /\ req[f].op = "create" /\ pc[g] \in {"handler", "commit"} /\ req[g].op = "create"
    /\ req[g].payload.name = req[f].payload.name

\* save_object: await self.db.refresh(obj) reloads the entity by its key.
save_object_refresh(f) ==
    /\ pc[f] = "refresh"
    /\ LET row == SelectById(rows, obj[f].id) IN
       IF row # NULL
       THEN /\ obj' = [obj EXCEPT ![f] = row]
            /\ resp' = [resp EXCEPT ![f] =
                          IF IsHttp(f)
                          THEN Response(HTTP_201_CREATED, ProductOutSchema(row))
                          ELSE Returned(row)]
            /\ UNCHANGED raised
       ELSE /\ resp' = [resp EXCEPT ![f] =
                          Surface(f, InvalidRequestError(<<"Could not refresh instance">>))]
            /\ raised' = [raised EXCEPT ![f] =
                            InvalidRequestError(<<"Could not refresh instance">>)]
            /\ UNCHANGED obj
    /\ rival' = [g \in Flows |->
                   IF g # f /\ SelectById(rows, obj[f].id) # NULL /\ Rivals(f, g)
                   THEN TRUE ELSE rival[g]]
    /\ trace' = [trace EXCEPT ![f] = Append(@, "db.refresh")]
    /\ pc' = [pc EXCEPT ![f] = "done"]
    /\ UNCHANGED <<store, req, sess, exc, records, env>>

\* save_object: except IntegrityError: rollback, then Conflict for a
\* uniqueness message and the caught error for any other.
save_object_rollback(f) ==
    /\ pc[f] = "rollback"
    /\ sess' = [sess EXCEPT ![f].pending = "none"]
    /\ trace' = [trace EXCEPT ![f] = Append(@, "db.rollback")]
    /\ LET e == IF IsUniqueViolation(exc[f].detail)
                THEN ConflictException(<<"A record with these details already exists.">>)
                ELSE exc[f]
       IN /\ resp' = [resp EXCEPT ![f] = Surface(f, e)]
          /\ raised' = [raised EXCEPT ![f] = e]
    /\ pc' = [pc EXCEPT ![f] = "done"]
    /\ UNCHANGED <<store, req, obj, exc, records>>
    /\ UNCHANGED <<rival, env>>

NotFoundDetail(id) == <<"Product", " with id ", id, " not found">>

\* GET /{id}: service.get -> repository.get -> get_one.
get_item(f) ==
    /\ pc[f] = "handler" /\ req[f].op = "get"
    /\ LET row == SelectById(rows, req[f].id) IN
       /\ obj' = [obj EXCEPT ![f] = row]
       /\ resp' = [resp EXCEPT ![f] =
                     IF row # NULL
                     THEN Response(HTTP_200_OK, ProductOutSchema(row))
                     ELSE HandleException(NotFoundException(NotFoundDetail(req[f].id)))]
       /\ raised' = [raised EXCEPT ![f] =
                       IF row # NULL THEN NULL
                       ELSE NotFoundException(NotFoundDetail(req[f].id))]
    /\ trace' = [trace EXCEPT ![f] =
                   <<"service.get", "repository.get", "repository.get_one", "db.execute">>]
    /\ pc' = [pc EXCEPT ![f] = "done"]
    /\ UNCHANGED <<store, req, sess, exc, records>>
    /\ UNCHANGED <<rival, env>>

\* RepositoryBase.get_one called directly: the entity or None.
get_one(f) ==
    /\ pc[f] = "handler" /\ req[f].op = "get_one"
    /\ LET row == SelectById(rows, req[f].id) IN
       /\ obj' = [obj EXCEPT ![f] = row]
       /\ resp' = [resp EXCEPT ![f] = Returned(row)]
    /\ trace' = [trace EXCEPT ![f] = <<"repository.get_one", "db.execute">>]
    /\ pc' = [pc EXCEPT ![f] = "done"]
    /\ UNCHANGED <<store, req, sess, exc, records>>
    /\ UNCHANGED <<rival, env, raised>>

\* A delete that commits where it should mark the entity for removal.
commit_before_remove(f) ==
    /\ pc[f] = "remove"
    /\ sess' = [sess EXCEPT ![f].pending = "delete"]
    /\ trace' = [trace EXCEPT ![f] = Append(@, "db.commit")]
    /\ pc' = [pc EXCEPT ![f] = "delete_commit"]
    /\ UNCHANGED <<store, req, obj, exc, records, resp>>
    /\ UNCHANGED <<rival, env, raised>>

\* DELETE /{id}, first step: obj = await self.get(model_id).
delete_get(f) ==
    /\ pc[f] = "handler" /\ req[f].op = "delete"
    /\ LET row == SelectById(rows, req[f].id) IN
       /\ obj' = [obj EXCEPT ![f] = row]
       /\ IF row # NULL
          THEN /\ pc' = [pc EXCEPT ![f] = "remove"]
               /\ UNCHANGED <<resp, raised>>
          ELSE /\ pc' = [pc EXCEPT ![f] = "done"]
               /\ resp' = [resp EXCEPT ![f] =
                             HandleException(NotFoundException(NotFoundDetail(req[f].id)))]
               /\ raised' = [raised EXCEPT ![f] =
                               NotFoundException(NotFoundDetail(req[f].id))]
    /\ trace' = [trace EXCEPT ![f] =
                   <<"service.delete", "repository.delete", "repository.get",
                     "repository.get_one", "db.execute">>]
    /\ UNCHANGED <<store, req, sess, exc, records>>
    /\ UNCHANGED <<rival, env>>

\* delete: await self.db.delete(obj) marks the fetched entity in the session.
delete_remove(f) ==
    /\ pc[f] = "remove"
    /\ sess' = [sess EXCEPT ![f].pending = "delete"]
    /\ trace' = [trace EXCEPT ![f] = Append(@, "db.delete")]
    /\ pc' = [pc EXCEPT ![f] = "delete_commit"]
    /\ UNCHANGED <<store, req, obj, exc, records, resp>>
    /\ UNCHANGED <<rival, env, raised>>

\* delete: await self.db.commit() flushes the DELETE by key and commits.
delete_commit(f) ==
    /\ pc[f] = "delete_commit"
    /\ rows' = DeleteById(rows, obj[f].id)
    /\ sess' = [sess EXCEPT ![f].pending = "none"]
    /\ trace' = [trace EXCEPT ![f] = Append(@, "db.commit")]
    /\ resp' = [resp EXCEPT ![f] = Response(HTTP_204_NO_CONTENT, NULL)]
    /\ pc' = [pc EXCEPT ![f] = "done"]
    /\ UNCHANGED <<engine, next_id, clock, req, obj, exc, records>>
    /\ UNCHANGED <<rival, env, raised>>

\* RepositoryBase.list called directly.
list(f) ==
    /\ pc[f] = "handler" /\ req[f].op = "list"
    /\ \E scan \in ScanOrders(engine, rows) :
       LET limit == req[f].page_size
           offset == req[f].page_number * req[f].page_size
           failure == LimitFailure(engine, limit, offset)
       IN /\ resp' = [resp EXCEPT ![f] =
                        IF failure = NULL THEN Returned(Window(scan, limit, offset))
                        ELSE Raised(failure)]
          /\ raised' = [raised EXCEPT ![f] = failure]
    /\ trace' = [trace EXCEPT ![f] = <<"repository.list", "db.execute">>]
    /\ pc' = [pc EXCEPT ![f] = "done"]
    /\ UNCHANGED <<store, req, sess, obj, exc, records>>
    /\ UNCHANGED <<rival, env>>

\* The 0-based page number list_items passes on.
PageNumber(page) == page - 1

\* GET /: list_items -> service.list_paginated -> repository.list_paginated,
\* up to its first query (the page of records).
list_items(f) ==
    /\ pc[f] = "handler" /\ req[f].op = "list_items"
    /\ \E scan \in ScanOrders(engine, rows) :
       LET limit == req[f].page_size
           offset == PageNumber(req[f].page) * req[f].page_size
           failure == LimitFailure(engine, limit, offset)
       IN IF failure = NULL
          THEN /\ records' = [records EXCEPT ![f] = Window(scan, limit, offset)]
               /\ pc' = [pc EXCEPT ![f] = "count"]
               /\ UNCHANGED <<resp, raised>>
          ELSE /\ resp' = [resp EXCEPT ![f] = HandleException(failure)]
               /\ raised' = [raised EXCEPT ![f] = failure]
               /\ pc' = [pc EXCEPT ![f] = "done"]
               /\ UNCHANGED records
    /\ trace' = [trace EXCEPT ![f] =
                   <<"service.list_paginated", "repository.list_paginated", "db.execute">>]
    /\ UNCHANGED <<store, req, sess, obj, exc>>
    /\ UNCHANGED <<rival, env>>

\* list_paginated, second query: the row count, then the envelope.
list_paginated_count(f) ==
    /\ pc[f] = "count"
    /\ LET row_count == RowCount(rows) IN
       resp' = [resp EXCEPT ![f] =
                  Response(HTTP_200_OK,
                           [records |-> [i \in 1..Len(records[f]) |->
                                           ProductOutSchema(records[f][i])],
                            record_count |-> row_count,
                            page_count |-> PageCount(row_count, req[f].page_size)])]
    /\ trace' = [trace EXCEPT ![f] = Append(@, "repository.get_rowcount")]
    /\ pc' = [pc EXCEPT ![f] = "done"]
    /\ UNCHANGED <<store, req, sess, obj, exc, records>>
    /\ UNCHANGED <<rival, env, raised>>

\* The response is sent; get_session closes the flow's session.
Finish(f) ==
    /\ pc[f] = "done"
    /\ pc' = [pc EXCEPT ![f] = "idle"]
    /\ req' = [req EXCEPT ![f] = NULL]
    /\ sess' = [sess EXCEPT ![f] = ClosedSession]
    /\ obj' = [obj EXCEPT ![f] = NULL]
    /\ exc' = [exc EXCEPT ![f] = NULL]
    /\ records' = [records EXCEPT ![f] = <<>>]
    /\ trace' = [trace EXCEPT ![f] = <<>>]
    /\ resp' = [resp EXCEPT ![f] = NULL]
    /\ rival' = [rival EXCEPT ![f] = FALSE]
    /\ raised' = [raised EXCEPT ![f] = NULL]
    /\ UNCHANGED <<store, env>>

\* GET of a documentation route: served when the application has the route.
get_docs(f) ==
    /\ pc[f] = "handler" /\ req[f].op = "docs"
    /\ resp' = [resp EXCEPT ![f] =
                  IF req[f].path \in App(env)
                  THEN Response(HTTP_200_OK, <<"documentation", req[f].path>>)
                  ELSE Response(HTTP_404_NOT_FOUND, [detail |-> <<"Not Found">>])]
    /\ pc' = [pc EXCEPT ![f] = "done"]
    /\ UNCHANGED <<store, req, sess, obj, exc, records, trace, rival, env, raised>>

\* The store call a flow is suspended in.
StoreCall(f) ==
    CASE pc[f] = "refresh" -> "db.refresh"
      [] pc[f] = "count" -> "repository.get_rowcount"
      [] OTHER -> "db.commit"

\* The awaited store call fails with an error that is no IntegrityError:
\* nothing in save_object, delete or list_paginated catches it, so it leaves
\* the handler as it is, with no rollback, and the store takes no change.
store_fault(f, e) ==
    /\ pc[f] \in {"commit", "refresh", "delete_commit", "count"}
    /\ trace' = [trace EXCEPT ![f] = Append(@, StoreCall(f))]
    /\ resp' = [resp EXCEPT ![f] = Surface(f, e)]
    /\ raised' = [raised EXCEPT ![f] = e]
    /\ pc' = [pc EXCEPT ![f] = "done"]
    /\ UNCHANGED <<store, req, sess, obj, exc, records, rival, env>>

\* Code running inside the handler of an endpoint raises an exception
\* before any store call is made.
service_raises(f, e) ==
    /\ pc[f] = "handler" /\ IsHttp(f) /\ req[f].op # "docs"
    /\ resp' = [resp EXCEPT ![f] = HandleException(e)]
    /\ raised' = [raised EXCEPT ![f] = e]
    /\ pc' = [pc EXCEPT ![f] = "done"]
    /\ UNCHANGED <<store, req, sess, obj, exc, records, trace, rival, env>>

\* The store's clock advances.
Tick ==
    /\ clock < MaxClock
    /\ clock' = clock + 1
    /\ UNCHANGED <<engine, rows, next_id, pc, req, sess, obj, exc, records, trace, resp,
                   rival, env, raised>>

Step(f, requests) ==
    \/ \E r \in requests : Request(f, r)
    \/ create_item(f)
    \/ save_object(f)
    \/ save_object_commit(f)
    \/ save_object_refresh(f)
    \/ save_object_rollback(f)
    \/ get_item(f)
    \/ get_one(f)
    \/ delete_get(f)
    \/ delete_remove(f)
    \/ delete_commit(f)
    \/ list(f)
    \/ list_items(f)
    \/ list_paginated_count(f)
    \/ Finish(f)

\* Concurrent flows, interleaved at the store boundary, within one instant
\* of the store's clock.
Next == \E f \in Flows : Step(f, InterleavedRequests)

Spec == Init /\ [][Next]_vars

\* Requests served one at a time, the clock advancing between them: a flow
\* moves only while every other flow is idle.
Alone(f) == \A g \in Flows \ {f} : pc[g] = "idle"

SeqNext == Tick \/ \E f \in Flows : Alone(f) /\ Step(f, Requests)

SeqSpec == Init /\ [][SeqNext]_vars

\* The requests of the whole application: one of each operation, and the
\* documentation routes.
AppRequests ==
    [op : {"create"},
     payload : { Payload(NameA, DescA, Small(1000), 10),
                 PayloadWithId,
                 Payload(NameB, DescA, Small(-100), -1) }]
    \cup [op : {"get", "delete", "get_one"}, id : {1}]
    \cup [op : {"list_items"}, page : {DefaultPage}, page_size : {1}]
    \cup [op : {"list"}, page_number : {0}, page_size : {1}]
    \cup [op : {"save_object"},
          obj : {NewProduct(Payload(NameB, DescA, Small(1000), -1))}, refresh : {TRUE}]
    \cup [op : {"docs"}, path : DocsPaths]

\* The whole application under any environment name: concurrent flows, the
\* documentation routes, store calls that fail and handlers that raise.
AppNext ==
    \E f \in Flows :
        \/ Step(f, AppRequests)
        \/ get_docs(f)
        \/ \E e \in StoreFaults : store_fault(f, e)
        \/ \E e \in ServiceExceptions : service_raises(f, e)

AppSpec == InitAnyEnv /\ [][AppNext]_vars

\* Requests that change the table: creates under three names, deletes.
PagingWrites ==
    [op : {"create"},
     payload : { Payload(NameA, DescA, Small(1000), 10),
                 Payload(NameB, DescA, Small(0), 10),
                 Payload(NameC, DescA, Small(1000), 10) }]
    \cup [op : {"delete"}, id : Ids]

\* Requests for a page, all within page_number >= 0 and page_size > 0.
PagingReads ==
    [op : {"list"}, page_number : {0, 1, 2}, page_size : {1, 2}]
    \cup [op : {"list_items"}, page : {DefaultPage, 2, 3}, page_size : {1, 2}]

PageOps == {"list", "list_items"}

\* Pages read from a table that stands still: a create or a delete runs
\* alone, and a page is asked for only while no create or delete is
\* running, so the table does not change while a flow holds a page.
PagingNext ==
    \E f \in Flows :
        \/ \E r \in PagingWrites : Alone(f) /\ Request(f, r)
        \/ \E r \in PagingReads :
              /\ \A g \in Flows \ {f} :
                    IF pc[g] = "idle" THEN TRUE ELSE req[g].op \in PageOps
              /\ Request(f, r)
        \/ create_item(f)
        \/ save_object_commit(f)
        \/ save_object_refresh(f)
        \/ save_object_rollback(f)
        \/ delete_get(f)
        \/ delete_remove(f)
        \/ delete_commit(f)
        \/ list(f)
        \/ list_items(f)
        \/ list_paginated_count(f)
        \/ Finish(f)

PagingSpec == Init /\ [][PagingNext]_vars

TypeOK ==
    /\ engine \in Engines
    /\ next_id \in 1..(MaxId + 1)
    /\ clock \in 1..MaxClock
    /\ \A f \in Flows : pc[f] \in {"idle", "handler", "commit", "refresh", "rollback",
                                   "remove", "delete_commit", "count", "done"}

\* ------------------------------------------------------------------------
\* Properties
\* ------------------------------------------------------------------------
Done(f, op) == pc[f] = "done" /\ req[f].op = op
Valid(p) == ProductInSchema(p) = <<>>
Stored(id) == id \in StoredIds(rows)
RowsNamed(name) == {i \in 1..Len(rows) : rows[i].name = name}

\* The four input fields of a response body equal those of a payload.
Echoes(body, p) ==
    /\ body.name = p.name
    /\ body.description = p.description
    /\ body.price = p.price
    /\ body.stock = p.stock

\* C1: a create of a valid payload whose name is not stored returns 201 with
\* a server-assigned product_id and the four input fields unchanged, and a
\* get of that id returns 200 with the same id and fields; the stored entity
\* has updated_at >= created_at.  (Requests one at a time: a create answered
\* 409 is one whose name was stored.)
C1_CreateThenGetEchoesPayload ==
    \A f \in Flows :
        /\ (Done(f, "create") /\ Valid(req[f].payload)) =>
             /\ resp[f].status \in {HTTP_201_CREATED, HTTP_409_CONFLICT}
             /\ resp[f].status = HTTP_409_CONFLICT =>
                  /\ RowsNamed(req[f].payload.name) # {}
                  /\ ~Contains(trace[f], "db.refresh")
             /\ resp[f].status = HTTP_201_CREATED =>
                  /\ resp[f].body.product_id \in Ids
                  /\ Stored(resp[f].body.product_id)
                  /\ Echoes(resp[f].body, req[f].payload)
                  /\ resp[f].body = ProductOutSchema(RowOf(rows, resp[f].body.product_id))
                  /\ LET row == RowOf(rows, resp[f].body.product_id)
                     IN row.updated_at >= row.created_at /\ row.created_at >= 1
        /\ (Done(f, "get") /\ Stored(req[f].id)) =>
             /\ resp[f].status = HTTP_200_OK
             /\ resp[f].body.product_id = req[f].id
             /\ resp[f].body = ProductOutSchema(RowOf(rows, req[f].id))

\* The step of flow f that leaves position at.
Leaves(f, at) == pc[f] = at /\ pc'[f] # at

ConflictBody ==
    [exception |-> "ConflictException",
     detail |-> <<"A record with these details already exists.">>]

\* C2: with requests one at a time, a create whose name is not stored is
\* answered 201 and one whose name is stored 409; the refused create leaves
\* the table as it was, so the store holds exactly one entity of that name,
\* the first call's.
C2_SecondCreateConflicts ==
    /\ [](\A f \in Flows :
            (Done(f, "create") /\ Valid(req[f].payload)) =>
               /\ Cardinality(RowsNamed(req[f].payload.name)) = 1
               /\ IF Contains(trace[f], "db.rollback")
                  THEN resp[f] = Response(HTTP_409_CONFLICT, ConflictBody)
                  ELSE /\ resp[f].status = HTTP_201_CREATED
                       /\ \A i \in RowsNamed(req[f].payload.name) :
                              rows[i].id = resp[f].body.product_id)
    /\ [][\A f \in Flows :
            (Leaves(f, "commit") /\ req[f].op = "create") =>
               IF obj[f].name \in StoredNames(rows)
               THEN pc'[f] = "rollback" /\ rows' = rows
               ELSE pc'[f] = "refresh"]_vars
    /\ [][\A f \in Flows :
            (Leaves(f, "rollback") /\ req[f].op = "create") =>
               rows' = rows /\ resp'[f].status = HTTP_409_CONFLICT]_vars

C2_Refused ==
    \E f \in Flows :
        /\ Done(f, "create") /\ resp[f].status = HTTP_409_CONFLICT
        /\ \E i \in RowsNamed(req[f].payload.name) :
               rows[i].stock # req[f].payload.stock

NoDuplicateNames ==
    \A i, j \in 1..Len(rows) : i # j => rows[i].name # rows[j].name

\* C3 as stated: no two stored entities share a name, and a create that was
\* in flight while another create of its name was answered 201 is answered
\* Conflict.
C3_AtMostOneCreateSucceeds ==
    /\ NoDuplicateNames
    /\ \A f \in Flows :
          (Done(f, "create") /\ rival[f]) => resp[f].status = HTTP_409_CONFLICT

\* C3 amended: no two stored entities share a name under any interleaving; a
\* save whose commit finds its name stored never succeeds and leaves the
\* table as it was; and a create refused at commit is answered Conflict
\* (409), not an internal error.
C3_UniqueNamesUnderInterleaving ==
    /\ [](/\ NoDuplicateNames
          /\ \A f \in Flows :
                (pc[f] \in {"rollback", "done"} /\ req[f].op = "create" /\ exc[f] # NULL) =>
                   /\ IsUniqueViolation(exc[f].detail)
                   /\ pc[f] = "done" => resp[f] = Response(HTTP_409_CONFLICT, ConflictBody))
    /\ [][\A f \in Flows :
            (Leaves(f, "commit") /\ obj[f].name \in StoredNames(rows)) =>
               pc'[f] = "rollback" /\ rows' = rows]_vars

C3_RivalRefused ==
    \E f \in Flows :
        Done(f, "create") /\ rival[f] /\ resp[f].status = HTTP_409_CONFLICT

\* C4: a get of an id that is not stored is answered 404 NotFoundException
\* with a detail naming the entity type and the id, and changes nothing in
\* the store; get_one of such an id returns None and raises nothing.
C4_GetOfUnstoredIdIsNotFound ==
    [][\A f \in Flows :
         (Leaves(f, "handler") /\ req[f].op \in {"get", "get_one"} /\ ~Stored(req[f].id)) =>
            /\ store' = store
            /\ pc'[f] = "done"
            /\ IF req[f].op = "get"
               THEN /\ resp'[f].status = HTTP_404_NOT_FOUND
                    /\ resp'[f].body.exception = "NotFoundException"
                    /\ resp'[f].body.detail[1] = "Product"
                    /\ resp'[f].body.detail[3] = req[f].id
               ELSE resp'[f].status = 0 /\ resp'[f].body = NULL]_vars

C4_Missed ==
    /\ \E f \in Flows : Done(f, "get") /\ resp[f].status = HTTP_404_NOT_FOUND
                        /\ rows # <<>>
    /\ \E f \in Flows : Done(f, "get_one") /\ resp[f].body = NULL

NotFoundBody(id) == [exception |-> "NotFoundException", detail |-> NotFoundDetail(id)]

\* C5: with requests one at a time, a delete answered 204 removes exactly
\* the entity stored under its id and leaves every other row as it was; the
\* id stays unstored until a save commits, and a get of an unstored id is
\* answered 404.
C5_DeleteThenGetIsNotFound ==
    /\ [](\A f \in Flows :
            /\ (Done(f, "delete") /\ resp[f].status = HTTP_204_NO_CONTENT) =>
                   ~Stored(req[f].id)
            /\ (Done(f, "get") /\ ~Stored(req[f].id)) =>
                   resp[f] = Response(HTTP_404_NOT_FOUND, NotFoundBody(req[f].id)))
    /\ [][\A f \in Flows :
            Leaves(f, "delete_commit") =>
               /\ resp'[f].status = HTTP_204_NO_CONTENT
               /\ \E k \in 1..Len(rows) :
                     /\ rows[k].id = req[f].id
                     /\ rows[k] = obj[f]
                     /\ rows' = SubSeq(rows, 1, k - 1) \o SubSeq(rows, k + 1, Len(rows))]_vars
    /\ [][\A i \in Ids :
            (~Stored(i) /\ i \in StoredIds(rows')) =>
               \E f \in Flows : Leaves(f, "commit")]_vars

C5_DeletedAmongOthers ==
    \E f \in Flows :
        /\ Done(f, "delete") /\ resp[f].status = HTTP_204_NO_CONTENT
        /\ rows # <<>>

\* C6: a delete of an id that is not stored is answered 404 NotFoundException
\* at its fetch; nothing is removed or committed, and the store is unchanged.
C6_DeleteOfUnstoredIdChangesNothing ==
    [][\A f \in Flows :
         (Leaves(f, "handler") /\ req[f].op = "delete" /\ ~Stored(req[f].id)) =>
            /\ store' = store
            /\ pc'[f] = "done"
            /\ resp'[f] = Response(HTTP_404_NOT_FOUND, NotFoundBody(req[f].id))
            /\ sess'[f].pending = "none"
            /\ ~Contains(trace'[f], "db.delete")
            /\ ~Contains(trace'[f], "db.commit")]_vars

C6_Refused ==
    \E f \in Flows :
        /\ Done(f, "delete") /\ resp[f].status = HTTP_404_NOT_FOUND
        /\ rows # <<>>

ExpectedPage(page_number, page_size, got, wrap(_)) ==
    LET n == Len(rows)
        left == n - page_number * page_size
        count == IF left < 0 THEN 0 ELSE IF left < page_size THEN left ELSE page_size
    IN /\ Len(got) = count
       /\ Len(got) <= page_size
       /\ \E scan \in ScanOrders(engine, rows) :
             \A k \in 1..Len(got) : got[k] = wrap(scan[page_number * page_size + k])

Same(r) == r

\* C8: for page_number >= 0 and page_size > 0, list and list_paginated
\* return exactly min(page_size, max(0, N - page_number * page_size))
\* records, the ones at those positions of the order in which the store
\* returned the table to the query.
C8_PageIsWindowOfStore ==
    \A f \in Flows :
        /\ (Done(f, "list") /\ req[f].page_number >= 0 /\ req[f].page_size > 0) =>
              /\ resp[f].status = 0
              /\ ExpectedPage(req[f].page_number, req[f].page_size, resp[f].body, Same)
        /\ (Done(f, "list_items") /\ req[f].page >= 1 /\ req[f].page_size > 0) =>
              /\ resp[f].status = HTTP_200_OK
              /\ ExpectedPage(req[f].page - 1, req[f].page_size,
                              resp[f].body.records, ProductOutSchema)

C8_SecondPageShort ==
    \E f \in Flows :
        /\ Done(f, "list_items") /\ req[f].page = 2 /\ req[f].page_size = 2
        /\ Len(rows) = 3 /\ Len(resp[f].body.records) = 1

\* The errors of a 422 body that are about one field.
ErrorsOn(detail, field) == {i \in 1..Len(detail) : detail[i].loc = <<"body", field>>}

\* C9: a create whose price or stock is negative is answered 422 with
\* exactly one error on each offending field, saying the value must be
\* >= 0; neither the service nor the repository is called and nothing is
\* stored.
C9_NegativeFieldsRejected ==
    [][\A f \in Flows :
         (Leaves(f, "handler") /\ req[f].op = "create"
          /\ (~WideGE0(req[f].payload.price) \/ req[f].payload.stock < 0)) =>
            LET detail == resp'[f].body.detail
                p == req[f].payload
            IN /\ pc'[f] = "done"
               /\ resp'[f].status = HTTP_422_UNPROCESSABLE_ENTITY
               /\ Cardinality(ErrorsOn(detail, "price")) = IF WideGE0(p.price) THEN 0 ELSE 1
               /\ Cardinality(ErrorsOn(detail, "stock")) = IF p.stock >= 0 THEN 0 ELSE 1
               /\ \A i \in ErrorsOn(detail, "price") \cup ErrorsOn(detail, "stock") :
                     detail[i].msg = MsgGE0
               /\ trace'[f] = <<>>
               /\ sess'[f].pending = "none"
               /\ store' = store]_vars

C9_BothFieldsReported ==
    \E f \in Flows :
        /\ Done(f, "create") /\ resp[f].status = HTTP_422_UNPROCESSABLE_ENTITY
        /\ Len(resp[f].body.detail) = 2
        /\ rows # <<>>

\* C10: every stored entity has price >= 0 and stock >= 0 in every reachable
\* state; a create reaches the commit only with both non-negative (input
\* validation), and a save of a negative value past the schema is refused
\* by the store's check constraints.
C10_StoredValuesNonNegative ==
    /\ \A i \in 1..Len(rows) : WideGE0(rows[i].price) /\ rows[i].stock >= 0
    /\ \A f \in Flows :
          /\ (pc[f] \in {"commit", "refresh", "rollback"} /\ req[f].op = "create") =>
                WideGE0(obj[f].price) /\ obj[f].stock >= 0
          /\ (pc[f] \in {"rollback", "done"} /\ req[f].op = "save_object"
              /\ (~WideGE0(req[f].obj.price) \/ req[f].obj.stock < 0)) =>
                /\ exc[f] # NULL
                /\ ~IsUniqueViolation(exc[f].detail)
                /\ pc[f] = "done" => resp[f].status = -1
                                     /\ resp[f].body.exception = "IntegrityError"

C10_CheckConstraintHit ==
    \E f \in Flows :
        /\ Done(f, "save_object") /\ req[f].obj.stock < 0
        /\ resp[f].body.exception = "IntegrityError"
        /\ rows # <<>>

\* A save of flow f has failed at its commit and the failure has left the
\* handler.
SaveFailedAtCommit(f) ==
    /\ pc[f] = "done" /\ req[f].op \in {"create", "save_object"}
    /\ raised[f] # NULL
    /\ Contains(trace[f], "db.commit") /\ ~Contains(trace[f], "db.refresh")

\* C11: when save fails at commit, a uniqueness violation leaves it as
\* Conflict with the "already exists" message and every other failure leaves
\* it as it was raised; in both cases db.rollback was called before the
\* error left save, the session holds no pending change, and the failing
\* commit stores nothing.
C11_SaveFailureRollsBackFirst ==
    /\ [](\A f \in Flows :
            SaveFailedAtCommit(f) =>
               /\ Contains(trace[f], "db.rollback")
               /\ sess[f].pending = "none"
               /\ IF exc[f] # NULL /\ IsUniqueViolation(exc[f].detail)
                  THEN raised[f] = ConflictException(ConflictBody.detail)
                  ELSE raised[f].cls \notin ExceptionBase)
    /\ [][\A f \in Flows :
            (Leaves(f, "commit") /\ (pc'[f] = "rollback" \/ raised'[f] # NULL)) =>
               rows' = rows]_vars

Fails(f) == pc[f] = "done" /\ IsHttp(f) /\ raised[f] # NULL

\* C12 as stated: every exception that leaves the handler of a request and
\* is not NotFound, Conflict or a validation failure is answered 500 with
\* the fixed generic body.
C12_EveryOtherExceptionIsOpaque500 ==
    \A f \in Flows :
        (Fails(f) /\ raised[f].cls \notin {"NotFoundException", "ConflictException",
                                          "RequestValidationError", "ValidationError"}) =>
           resp[f] = Response(HTTP_500_INTERNAL_SERVER_ERROR, InternalServerError)

\* C12 amended: every exception that leaves the handler of a request and is
\* neither an HTTPException (ExceptionBase and its subclasses, SystemException)
\* nor a validation error is answered 500 with the fixed generic body, which
\* holds no fragment of the exception's message; an HTTPException is answered
\* with its own status code and its own detail, so a SystemException is a 500
\* that carries the text it was raised with.
C12_UnmappedExceptionIsOpaque500 ==
    \A f \in Flows :
        Fails(f) =>
           IF raised[f].cls \in HTTPException
           THEN /\ resp[f].status = raised[f].status_code
                /\ resp[f].body.detail = raised[f].detail
           ELSE IF raised[f].cls \in {"RequestValidationError", "ValidationError"}
           THEN resp[f].status = HTTP_422_UNPROCESSABLE_ENTITY
           ELSE /\ resp[f] = Response(HTTP_500_INTERNAL_SERVER_ERROR, InternalServerError)
                /\ \A i \in 1..Len(raised[f].detail) :
                       ~Contains(resp[f].body.detail, raised[f].detail[i])

C12_StoreFailureAnswered ==
    \E f, g \in Flows :
        /\ Fails(f) /\ raised[f].cls = "OperationalError"
        /\ resp[f].status = HTTP_500_INTERNAL_SERVER_ERROR
        /\ Fails(g) /\ raised[g].cls = "SystemException"
        /\ resp[g].status = HTTP_500_INTERNAL_SERVER_ERROR

IsErrorResponse(f) == pc[f] = "done" /\ IsHttp(f) /\ resp[f].status >= HTTP_400_BAD_REQUEST

Count(text, fragment) == Cardinality({i \in 1..Len(text) : text[i] = fragment})

C14_EnvControlsDocs ==
    \A f \in Flows :
        Done(f, "docs") =>
           IF env = "PROD"
           THEN resp[f].status = HTTP_404_NOT_FOUND
           ELSE resp[f].status = HTTP_200_OK

\* C15: in every reachable state no two stored entities have the same id;
\* a save that stores an entity gives it the store's next key, which is
\* positive and not the id of a stored entity, whatever the request carried
\* (the entity comes to the commit without an id); and no step changes the
\* id of an entity that is stored before and after it.
C15_IdentityUniqueAndImmutable ==
    /\ [](\A i, j \in 1..Len(rows) : i # j => rows[i].id # rows[j].id)
    /\ [][\A f \in Flows :
            (Leaves(f, "commit") /\ rows' # rows) =>
               LET new == rows'[Len(rows')] IN
               /\ obj[f].id = 0
               /\ rows' = Append(rows, new)
               /\ new.id = NextKey(engine, rows, next_id)
               /\ new.id >= 1 /\ new.id \notin StoredIds(rows)
               /\ obj'[f].id = new.id]_vars
    /\ [][\A i \in 1..Len(rows) : \A j \in 1..Len(rows') :
            rows[i].name = rows'[j].name => rows'[j].id = rows[i].id]_vars

C15_ProposedIdIgnored ==
    \E f \in Flows :
        /\ Done(f, "create") /\ resp[f].status = HTTP_201_CREATED
        /\ req[f].payload = PayloadWithId
        /\ resp[f].body.product_id # ProposedId
        /\ Len(rows) = 2

\* C16: a create or delete that returns success has its change in the
\* store when it returns; one that returns an error has stored nothing and
\* removed nothing; and no flow ends with a change pending in its session.
C16_UnitOfWork ==
    /\ [](\A f \in Flows :
            (pc[f] = "done" /\ req[f].op \in {"create", "delete"}) =>
               sess[f].pending = "none")
    /\ [][\A f \in Flows :
            (pc[f] # "done" /\ pc'[f] = "done" /\ req[f].op = "create") =>
               IF resp'[f].status = HTTP_201_CREATED
               THEN resp'[f].body.product_id \in StoredIds(rows')
               ELSE obj'[f] = NULL \/ obj'[f].id \notin StoredIds(rows')]_vars
    /\ [][\A f \in Flows :
            (pc[f] # "done" /\ pc'[f] = "done" /\ req[f].op = "delete") =>
               IF resp'[f].status = HTTP_204_NO_CONTENT
               THEN req[f].id \notin StoredIds(rows')
               ELSE rows' = rows]_vars

\* C17: the list endpoint passes page - 1 as the page number (the defaults
\* give page number 0 and page size 10), and every call that reaches the
\* repository from the endpoint has page_number >= 0 and page_size > 0.
C17_ListCallMeetsPrecondition ==
    /\ PageNumber(DefaultPage) = 0
    /\ \A f \in Flows :
          (pc[f] \in {"count", "done"} /\ req[f].op = "list_items"
           /\ Contains(trace[f], "repository.list_paginated")) =>
             /\ PageNumber(req[f].page) = req[f].page - 1
             /\ PageNumber(req[f].page) >= 0
             /\ req[f].page_size > 0

\* C18: a flow has an open session exactly while it is handling a request,
\* and it is one session from the request's arrival to the flow's end; two
\* flows never hold the same session, and a step of one flow leaves the
\* session of every other flow as it was; a handler never ends the flow by
\* itself, and the step that ends a flow closes its session, whatever
\* response the flow ended with, with no change left pending.
C18_OneSessionPerFlow ==
    /\ [](\A f \in Flows :
            /\ sess[f].open <=> pc[f] # "idle"
            /\ sess[f].open => sess[f].sid \in 1..Cardinality(Flows)
            /\ ~sess[f].open => sess[f] = ClosedSession
            /\ \A g \in Flows \ {f} :
                  (sess[f].open /\ sess[g].open) => sess[f].sid # sess[g].sid)
    /\ [][\A f \in Flows :
            /\ (pc[f] # "idle" /\ pc'[f] # "idle") => sess'[f].sid = sess[f].sid
            /\ (pc[f] \notin {"idle", "done"}) => pc'[f] # "idle"
            /\ (pc'[f] = pc[f] /\ trace'[f] = trace[f]) => sess'[f] = sess[f]
            /\ Leaves(f, "done") => pc'[f] = "idle" /\ sess'[f] = ClosedSession]_vars

C18_BothOpenOneFailed ==
    \E f, g \in Flows :
        /\ Fails(f) /\ raised[f].cls = "OperationalError" /\ sess[f].pending = "add"
        /\ pc[g] = "rollback" /\ sess[g].pending = "add"
        /\ sess[f].sid # sess[g].sid

DeleteCalls ==
    <<"service.delete", "repository.delete", "repository.get", "repository.get_one",
      "db.execute", "db.delete", "db.commit">>

\* C19: a delete answered 204 has made exactly these calls, each once and in
\* this order: the fetch through get, db.delete, db.commit.  The entity
\* handed to db.delete is the fetched one, the one stored under the
\* requested id; db.delete changes nothing in the store, and the commit
\* removes the row with that id and no other.
C19_DeleteFetchesRemovesCommits ==
    /\ [](\A f \in Flows :
            /\ (Done(f, "delete") /\ resp[f].status = HTTP_204_NO_CONTENT) =>
                  trace[f] = DeleteCalls /\ obj[f].id = req[f].id
            /\ (pc[f] \in {"remove", "delete_commit"}) =>
                  /\ obj[f] # NULL /\ obj[f].id = req[f].id
                  /\ trace[f] = SubSeq(DeleteCalls, 1,
                                        IF pc[f] = "remove" THEN 5 ELSE 6)
                  /\ sess[f].pending = IF pc[f] = "remove" THEN "none" ELSE "delete")
    /\ [][\A f \in Flows :
            /\ Leaves(f, "remove") =>
                  pc'[f] = "delete_commit" /\ obj'[f] = obj[f] /\ rows' = rows
            /\ (Leaves(f, "delete_commit") /\ resp'[f].status = HTTP_204_NO_CONTENT) =>
                  /\ StoredIds(rows') = StoredIds(rows) \ {obj[f].id}
                  /\ \A i \in StoredIds(rows') : RowOf(rows', i) = RowOf(rows, i)]_vars

C19_DeletedOneOfTwo ==
    \E f \in Flows :
        /\ Done(f, "delete") /\ resp[f].status = HTTP_204_NO_CONTENT
        /\ trace[f] = DeleteCalls
        /\ Len(rows) = 1 /\ rows[1].id # req[f].id

\* C20: a delete is answered 204 only when its commit removes the entity it
\* fetched, so that no entity is deleted twice; a delete whose entity is
\* gone when it commits is answered NotFound.
C20_EntityDeletedAtMostOnce ==
    [][\A f \in Flows :
         Leaves(f, "delete_commit") =>
            IF \E k \in 1..Len(rows) : rows[k] = obj[f]
            THEN resp'[f].status = HTTP_204_NO_CONTENT
            ELSE resp'[f].status = HTTP_404_NOT_FOUND]_vars

\* The page a flow asked for and the ids of the records it was given.
PageAsked(f) ==
    IF req[f].op = "list" THEN req[f].page_number ELSE PageNumber(req[f].page)

PageIds(f) ==
    IF req[f].op = "list"
    THEN {resp[f].body[k].id : k \in 1..Len(resp[f].body)}
    ELSE {resp[f].body.records[k].product_id : k \in 1..Len(resp[f].body.records)}

HoldsPage(f) ==
    /\ pc[f] = "done" /\ req[f].op \in PageOps
    /\ resp[f].status \in {0, HTTP_200_OK}

\* C21: while the table stands still, two calls with one page size that ask
\* for the same page are given the same records, two that ask for different
\* pages are given records that have no entity in common, and when the table
\* has two pages, pages 0 and 1 together hold every stored entity.
C21_PagesPartitionTheTable ==
    \A f, g \in Flows :
        (f # g /\ HoldsPage(f) /\ HoldsPage(g)
         /\ req[f].page_size = req[g].page_size) =>
           /\ PageAsked(f) = PageAsked(g) => PageIds(f) = PageIds(g)
           /\ PageAsked(f) # PageAsked(g) => PageIds(f) \cap PageIds(g) = {}
           /\ (PageCount(RowCount(rows), req[f].page_size) = 2
               /\ {PageAsked(f), PageAsked(g)} = {0, 1}) =>
                 PageIds(f) \cup PageIds(g) = StoredIds(rows)

\* C22: the records of a list_paginated response are no more than
\* max(0, record_count - page_number * page_size), with record_count the
\* count the same response carries, whatever other flows create or delete
\* while the call runs.
C22_RecordsWithinCount ==
    \A f \in Flows :
        (Done(f, "list_items") /\ resp[f].status = HTTP_200_OK) =>
           Len(resp[f].body.records) <=
              Max(0, resp[f].body.record_count
                       - PageNumber(req[f].page) * req[f].page_size)

====
